---- MODULE Spec2Model ----
(***************************************************************************)
(* The refinement pipeline of src/automation-engine.ts: deduceGoal,        *)
(* traceBackward, pruneNoise and the orchestrator processRecording, over   *)
(* logs of RecordedAction (src/src/App.tsx).                               *)
(*                                                                         *)
(* Strings are sequences of one-character strings, so that trim(),         *)
(* startsWith() and the `${timestamp}-${target}` key are computed and not  *)
(* assumed.  A JavaScript Map is a sequence of entries in insertion order  *)
(* (set on an existing key keeps the key's position).                      *)
(***************************************************************************)
EXTENDS Integers, Sequences, FiniteSets, TLC

(* ------------------------------ bounds --------------------------------- *)

\* longest raw log
MaxLen == 2

\* record timestamps range over 1..MaxTime
MaxTime == 3

\* most setTimeout callbacks of the shell pending at once
MaxPending == 1

(* ------------------------- values and strings -------------------------- *)

\* value?: string | boolean, as a tagged value; === is equality of these
Undefined == [tag |-> "undefined", b |-> FALSE, s |-> <<>>]

Bool(x) == [tag |-> "boolean", b |-> x, s |-> <<>>]

Str(chars) == [tag |-> "string", b |-> FALSE, s |-> chars]

\* characters String.prototype.trim removes (those the model's strings use)
WhiteSpace == {" ", "\t", "\n"}

RECURSIVE TrimStart(_)
TrimStart(s) ==
    IF s # <<>> /\ Head(s) \in WhiteSpace THEN TrimStart(Tail(s)) ELSE s

RECURSIVE TrimEnd(_)
TrimEnd(s) ==
    IF s # <<>> /\ s[Len(s)] \in WhiteSpace
    THEN TrimEnd(SubSeq(s, 1, Len(s) - 1))
    ELSE s

\* String.prototype.trim
Trim(s) == TrimEnd(TrimStart(s))

\* String.prototype.startsWith
StartsWith(s, prefix) ==
    /\ Len(s) >= Len(prefix)
    /\ SubSeq(s, 1, Len(prefix)) = prefix

\* the 'task-' prefix of deduceGoal
TaskPrefix == <<"t", "a", "s", "k", "-">>

Digit(d) == <<"0", "1", "2", "3", "4", "5", "6", "7", "8", "9">>[d + 1]

\* the decimal text a template literal gives a non-negative integer
RECURSIVE NumberToString(_)
NumberToString(n) ==
    IF n < 10 THEN <<Digit(n)>>
    ELSE NumberToString(n \div 10) \o <<Digit(n % 10)>>

(* ------------------------------ Map ------------------------------------ *)

MapHas(m, k) == \E i \in 1..Len(m) : m[i].key = k

MapIndex(m, k) == CHOOSE i \in 1..Len(m) : m[i].key = k

MapGet(m, k) == m[MapIndex(m, k)].val

MapSet(m, k, v) ==
    IF MapHas(m, k)
    THEN [m EXCEPT ![MapIndex(m, k)] = [key |-> k, val |-> v]]
    ELSE Append(m, [key |-> k, val |-> v])

MapValues(m) == [i \in 1..Len(m) |-> m[i].val]

Includes(seq, x) == \E i \in 1..Len(seq) : seq[i] = x

(* --------------------- Array.prototype.sort ---------------------------- *)

\* insert a after every element whose timestamp is <= a's (stable)
RECURSIVE InsertByTimestamp(_, _)
InsertByTimestamp(sorted, a) ==
    IF sorted = <<>> THEN <<a>>
    ELSE IF Head(sorted).timestamp <= a.timestamp
         THEN <<Head(sorted)>> \o InsertByTimestamp(Tail(sorted), a)
         ELSE <<a>> \o sorted

RECURSIVE SortLoop(_, _)
SortLoop(done, rest) ==
    IF rest = <<>> THEN done
    ELSE SortLoop(InsertByTimestamp(done, Head(rest)), Tail(rest))

\* sort((a, b) => a.timestamp - b.timestamp), a stable sort
SortByTimestamp(seq) == SortLoop(<<>>, seq)

(* --------------------------- deduceGoal -------------------------------- *)

\* lines 26-36: the forEach that keeps one { value, timestamp } per target
RECURSIVE TargetStates(_, _)
TargetStates(actions, n) ==
    IF n = 0 THEN <<>>
    ELSE LET m == TargetStates(actions, n - 1)
             action == actions[n]
         IN  IF ~MapHas(m, action.target)
                \/ action.timestamp > MapGet(m, action.target).timestamp
             THEN MapSet(m, action.target,
                         [value |-> action.value,
                          timestamp |-> action.timestamp])
             ELSE m

\* line 40: target.startsWith('task-') && state.value === true
IsCompletedTask(target, state) ==
    StartsWith(target, TaskPrefix) /\ state.value = Bool(TRUE)

\* line 42 without the trim: state.value !== ''
IsFormValue_NoTrim(target, state) ==
    state.value.tag = "string" /\ state.value.s # <<>>

\* line 42: typeof state.value === 'string' && state.value.trim() !== ''
IsFormValue(target, state) ==
    state.value.tag = "string" /\ Trim(state.value.s) # <<>>

\* line 43 storing state.value.trim()
StoredFormValue_Trimmed(state) == Str(Trim(state.value.s))

\* line 43: the value stored under formValues[target]
StoredFormValue(state) == state.value

\* lines 39-45: the forEach over targetStates that fills finalState
RECURSIVE BuildFinalState(_, _, _)
BuildFinalState(targetStates, n, now) ==
    IF n = 0
    THEN [completedTasks |-> <<>>, formValues |-> <<>>, timestamp |-> now]
    ELSE LET fs == BuildFinalState(targetStates, n - 1, now)
             target == targetStates[n].key
             state == targetStates[n].val
         IN  IF IsCompletedTask(target, state)
             THEN [fs EXCEPT !.completedTasks = Append(@, target)]
             ELSE IF IsFormValue(target, state)
             THEN [fs EXCEPT !.formValues =
                                MapSet(@, target, StoredFormValue(state))]
             ELSE fs

\* now is the value Date.now() returns at line 19
deduceGoal(actions, now) ==
    LET targetStates == TargetStates(actions, Len(actions))
    IN  BuildFinalState(targetStates, Len(targetStates), now)

(* -------------------------- traceBackward ------------------------------ *)

\* lines 61-65: completedTasks and the keys of formValues
NecessaryTargets(goal) ==
    {goal.completedTasks[i] : i \in 1..Len(goal.completedTasks)}
        \cup {goal.formValues[i].key : i \in 1..Len(goal.formValues)}

\* goal.formValues[target]: undefined when the object has no such key
FormValueOf(goal, target) ==
    IF MapHas(goal.formValues, target)
    THEN MapGet(goal.formValues, target)
    ELSE Undefined

\* lines 76-78 with the record also required not to be later than the goal
ShouldKeep_BeforeGoal(action, goal) ==
    /\ action.timestamp <= goal.timestamp
    /\ \/ action.type = "toggle"
             /\ Includes(goal.completedTasks, action.target)
       \/ action.type = "input"
             /\ action.value = FormValueOf(goal, action.target)

\* lines 76-78
ShouldKeep(action, goal) ==
    \/ action.type = "toggle" /\ Includes(goal.completedTasks, action.target)
    \/ action.type = "input"
          /\ action.value = FormValueOf(goal, action.target)

\* lines 70-85: the forEach that fills targetToLastAction
RECURSIVE TargetToLastAction(_, _, _)
TargetToLastAction(actions, n, goal) ==
    IF n = 0 THEN <<>>
    ELSE LET m == TargetToLastAction(actions, n - 1, goal)
             action == actions[n]
         IN  IF /\ action.target \in NecessaryTargets(goal)
                /\ \/ ~MapHas(m, action.target)
                   \/ action.timestamp > MapGet(m, action.target).timestamp
                /\ ShouldKeep(action, goal)
             THEN MapSet(m, action.target, action)
             ELSE m

traceBackward(actions, goal) ==
    SortByTimestamp(MapValues(TargetToLastAction(actions, Len(actions), goal)))

(* ---------------------------- pruneNoise ------------------------------- *)

\* lines 107, 112: `${action.timestamp}-${action.target}`
KeyOf(action) == NumberToString(action.timestamp) \o <<"-">> \o action.target

\* lines 106-108
KeepSet(keepList) == {KeyOf(keepList[i]) : i \in 1..Len(keepList)}

\* lines 111-113: rawLog.filter(...)
FilterKept(rawLog_, keepList_) ==
    SelectSeq(rawLog_, LAMBDA action : KeyOf(action) \in KeepSet(keepList_))

\* lines 116-125: the forEach that fills uniqueTargets
RECURSIVE UniqueTargets(_, _)
UniqueTargets(script, n) ==
    IF n = 0 THEN <<>>
    ELSE LET m == UniqueTargets(script, n - 1)
             action == script[n]
         IN  IF ~MapHas(m, action.target)
                \/ action.timestamp > MapGet(m, action.target).timestamp
             THEN MapSet(m, action.target, action)
             ELSE m

\* lines 128-130 with the script's timestamps renumbered 1, 2, ...
Deduplicated_Renumbered(script) ==
    LET sorted == SortByTimestamp(MapValues(UniqueTargets(script, Len(script))))
    IN  [i \in 1..Len(sorted) |-> [sorted[i] EXCEPT !.timestamp = i]]

\* the sort of lines 128-130 left out: Map insertion order
Deduplicated_Unsorted(script) ==
    MapValues(UniqueTargets(script, Len(script)))

\* lines 128-130: what pruneNoise returns for the filtered log
Deduplicated(script) ==
    SortByTimestamp(MapValues(UniqueTargets(script, Len(script))))

\* lines 115-125 left out: the filtered log is only sorted
pruneNoise_NoDedup(rawLog_, keepList_) ==
    SortByTimestamp(FilterKept(rawLog_, keepList_))

pruneNoise(rawLog_, keepList_) == Deduplicated(FilterKept(rawLog_, keepList_))

(* ------------------------- processRecording ---------------------------- *)

\* what the three fields hold when no stage ran
NoGoal == [completedTasks |-> <<>>, formValues |-> <<>>, timestamp |-> 0]

\* line 138 left out: the stages run on the empty log too
processRecording_NoEarlyReturn(rawLog_, now) ==
    LET goal_ == deduceGoal(rawLog_, now)
        keepList_ == traceBackward(rawLog_, goal_)
    IN  [refinedScript |-> pruneNoise(rawLog_, keepList_),
         goal |-> goal_,
         keepList |-> keepList_,
         invoked |-> <<"deduceGoal", "traceBackward", "pruneNoise">>]

\* the result, with the stages called and their intermediate values
processRecording(rawLog_, now) ==
    IF Len(rawLog_) = 0
    THEN [refinedScript |-> <<>>, goal |-> NoGoal, keepList |-> <<>>,
          invoked |-> <<>>]
    ELSE LET goal_ == deduceGoal(rawLog_, now)
             keepList_ == traceBackward(rawLog_, goal_)
         IN  [refinedScript |-> pruneNoise(rawLog_, keepList_),
              goal |-> goal_,
              keepList |-> keepList_,
              invoked |-> <<"deduceGoal", "traceBackward", "pruneNoise">>]

(* ------------------------------ inputs --------------------------------- *)

\* RecordedAction.type (src/src/App.tsx line 11)
ActionTypes == {"click", "input", "toggle"}

\* a checklist item and a form field
Task1 == <<"t", "a", "s", "k", "-", "1">>

Name == <<"n", "a", "m", "e">>

Targets == {Task1, Name}

Timestamps == 1..MaxTime

\* record shapes whose value has the type their kind prescribes: a task
\* checked and unchecked, a field typed as " a", "b", " " and "", text
\* typed into the task, a toggle outside the checklist, a click
TypedShapes ==
    { <<"toggle", Task1, Bool(TRUE)>>,
      <<"toggle", Task1, Bool(FALSE)>>,
      <<"toggle", Name, Bool(TRUE)>>,
      <<"input", Task1, Str(<<"b">>)>>,
      <<"input", Name, Str(<<" ", "a">>)>>,
      <<"input", Name, Str(<<"b">>)>>,
      <<"input", Name, Str(<<" ">>)>>,
      <<"input", Name, Str(<<>>)>>,
      <<"click", Name, Undefined>> }

\* shapes the RecordedAction type also allows: a click carrying a value,
\* an input carrying none
UntypedShapes ==
    { <<"click", Task1, Bool(TRUE)>>,
      <<"input", Task1, Undefined>> }

Action(shape, timestamp) ==
    [type |-> shape[1], target |-> shape[2], value |-> shape[3],
     timestamp |-> timestamp]

TypedActions == {Action(sh, ts) : sh \in TypedShapes, ts \in Timestamps}

Actions ==
    {Action(sh, ts) : sh \in TypedShapes \cup UntypedShapes, ts \in Timestamps}

Logs == UNION {[1..n -> Actions] : n \in 0..MaxLen}

\* the values Date.now() may return: before and after every record
Clock == {0, MaxTime + 1}

(* --------------------------- state machine ----------------------------- *)

VARIABLES
    rawLog,         \* the recorded log
    pc,             \* "ready", "done", "again" or "rerefined"
    goal,           \* deduceGoal's result in processRecording(rawLog)
    keepList,       \* traceBackward's result in processRecording(rawLog)
    refinedScript,  \* what processRecording(rawLog) returned
    invoked,        \* the stages processRecording(rawLog) invoked, in order
    second          \* the outcome of the call that followed, if any

\* the useState cells of App (src/src/App.tsx lines 18-35), the pending
\* setTimeout callbacks, and what the finished sessions produced
VARIABLES
    isTeaching,
    showSuggestion,
    showScheduler,
    showFeedback,
    feedbackMessage,
    recordedActions,
    savedTask,             \* <<>> for null, <<script>> for an array
    isAutomating,
    rawActionCount,
    scheduledTime,         \* <<>> for null, <<time>> for a string
    teachingJustFinished,
    timers,                \* pending callbacks: kind -> how many
    sessions,              \* the scripts processRecording returned to
                           \* handleFinishTeaching so far
    nothingWorthSaving     \* the latest handleFinishTeaching had an empty
                           \* log or got an empty script

pipelineVars == <<rawLog, pc, goal, keepList, refinedScript, invoked, second>>

shellVars ==
    <<isTeaching, showSuggestion, showScheduler, showFeedback,
      feedbackMessage, recordedActions, savedTask, isAutomating,
      rawActionCount, scheduledTime, teachingJustFinished, timers,
      sessions, nothingWorthSaving>>

vars == <<pipelineVars, shellVars>>

\* the callbacks the shell hands to setTimeout
TimerKinds == {"suggest", "hide", "run800", "run100", "run2000"}

\* the state after App's first render: every useState initial value
ShellInit ==
    /\ isTeaching = FALSE
    /\ showSuggestion = FALSE
    /\ showScheduler = FALSE
    /\ showFeedback = FALSE
    /\ feedbackMessage = <<>>
    /\ recordedActions = <<>>
    /\ savedTask = <<>>
    /\ isAutomating = FALSE
    /\ rawActionCount = 0
    /\ scheduledTime = <<>>
    /\ teachingJustFinished = FALSE
    /\ timers = [k \in TimerKinds |-> 0]
    /\ sessions = {}
    /\ nothingWorthSaving = FALSE

\* no call yet
NoResult ==
    [refinedScript |-> <<>>, goal |-> NoGoal, keepList |-> <<>>,
     invoked |-> <<>>]

Init ==
    /\ rawLog \in Logs
    /\ pc = "ready"
    /\ goal = NoGoal
    /\ keepList = <<>>
    /\ refinedScript = <<>>
    /\ invoked = <<>>
    /\ second = NoResult
    /\ ShellInit

\* processRecording(rawLog)
ProcessRecording ==
    /\ pc = "ready"
    /\ \E now \in Clock :
         \E r \in {processRecording(rawLog, now)} :
            /\ goal' = r.goal
            /\ keepList' = r.keepList
            /\ refinedScript' = r.refinedScript
            /\ invoked' = r.invoked
    /\ pc' = "done"
    /\ UNCHANGED <<rawLog, second>>
    /\ UNCHANGED shellVars

\* processRecording(rawLog) a second time, when Date.now() has moved on
ProcessAgain ==
    /\ pc = "done"
    /\ \E now \in Clock \ {goal.timestamp} :
         second' = processRecording(rawLog, now)
    /\ pc' = "again"
    /\ UNCHANGED <<rawLog, goal, keepList, refinedScript, invoked>>
    /\ UNCHANGED shellVars

\* processRecording(processRecording(rawLog))
Rerefine ==
    /\ pc = "done"
    /\ \E now \in Clock : second' = processRecording(refinedScript, now)
    /\ pc' = "rerefined"
    /\ UNCHANGED <<rawLog, goal, keepList, refinedScript, invoked>>
    /\ UNCHANGED shellVars

Next == ProcessRecording \/ ProcessAgain \/ Rerefine

Spec == Init /\ [][Next]_vars

\* processRecording(rawLog) has returned
Processed == pc \in {"done", "again", "rerefined"}

(* ------------------------------ claims --------------------------------- *)

Range(seq) == {seq[i] : i \in 1..Len(seq)}

TargetsOf(seq) == {seq[i].target : i \in 1..Len(seq)}

\* C1  Target uniqueness: no two records of processRecording(rawLog) have
\* the same target, whatever the log's length, kinds, values, repeated
\* targets and tied timestamps.
C1_TargetUniqueness ==
    Processed =>
        \A i, j \in 1..Len(refinedScript) :
            i # j => refinedScript[i].target # refinedScript[j].target

\* a kept record whose target and timestamp a second record of the log shares
C1_Witness ==
    /\ Processed
    /\ \E i, j \in 1..Len(rawLog) :
          /\ i # j
          /\ rawLog[i].target = rawLog[j].target
          /\ rawLog[i].timestamp = rawLog[j].timestamp
          /\ rawLog[i] \in Range(refinedScript)

\* C2  Chronological ordering: processRecording(rawLog) is sorted by
\* timestamp ascending, also when the log is not given in timestamp order.
C2_ChronologicalOrdering ==
    Processed =>
        \A i \in 1..(Len(refinedScript) - 1) :
            refinedScript[i].timestamp <= refinedScript[i + 1].timestamp

\* two kept records that the log gives in the opposite order
C2_Witness ==
    /\ Processed
    /\ \E i, j \in 1..Len(rawLog) :
          /\ i < j
          /\ rawLog[i].timestamp > rawLog[j].timestamp
          /\ rawLog[i] \in Range(refinedScript)
          /\ rawLog[j] \in Range(refinedScript)

\* the { value, timestamp } deduceGoal retained for a target of rawLog
TerminalOf(target) == MapGet(TargetStates(rawLog, Len(rawLog)), target)

\* the record deduceGoal took the target's terminal value from: of the
\* target's records with the greatest timestamp, the first in the log
GoalSource(target) ==
    rawLog[CHOOSE i \in 1..Len(rawLog) :
              /\ rawLog[i].target = target
              /\ \A j \in 1..Len(rawLog) :
                    rawLog[j].target = target =>
                        \/ rawLog[j].timestamp < rawLog[i].timestamp
                        \/ rawLog[j].timestamp = rawLog[i].timestamp /\ i <= j]

\* C3  One record per necessary target, the one that produced its terminal
\* value: for every target in completedTasks or formValues of
\* deduceGoal(rawLog), processRecording(rawLog) has exactly one record, and
\* it is the record the terminal value was taken from (same kind, value and
\* timestamp).
C3_OneRecordPerNecessaryTarget ==
    Processed =>
        \A target \in NecessaryTargets(goal) :
            /\ Cardinality({i \in 1..Len(refinedScript) :
                               refinedScript[i].target = target}) = 1
            /\ GoalSource(target) \in Range(refinedScript)
            /\ GoalSource(target).value = TerminalOf(target).value
            /\ GoalSource(target).timestamp = TerminalOf(target).timestamp

\* C4  Idempotence under re-refinement: processRecording applied to
\* processRecording(rawLog) returns the same sequence of records.
C4_Idempotence ==
    pc = "rerefined" => second.refinedScript = refinedScript

\* the target's record that is last in the log among those with the
\* target's greatest timestamp
LastOfLatest(target) ==
    rawLog[CHOOSE i \in 1..Len(rawLog) :
              /\ rawLog[i].target = target
              /\ \A j \in 1..Len(rawLog) :
                    rawLog[j].target = target =>
                        \/ rawLog[j].timestamp < rawLog[i].timestamp
                        \/ rawLog[j].timestamp = rawLog[i].timestamp /\ j <= i]

\* C5  Goal Deduction tie-break: when records of one target share the
\* greatest timestamp, the goal reflects the value of the one later in the
\* log: the target is a completed task or a form value exactly as that
\* value classifies, and a form value is that value.
C5_LaterWinsOnTie ==
    Processed =>
        \A target \in TargetsOf(rawLog) :
            LET state == [value |-> LastOfLatest(target).value]
            IN  /\ Includes(goal.completedTasks, target)
                      <=> IsCompletedTask(target, state)
                /\ MapHas(goal.formValues, target)
                      <=> (~IsCompletedTask(target, state)
                              /\ IsFormValue(target, state))
                /\ MapHas(goal.formValues, target)
                      => MapGet(goal.formValues, target) = state.value

\* a terminal value that deduceGoal drops
IsDropped(target, value) ==
    \/ value = Bool(FALSE)
    \/ value.tag = "string" /\ Trim(value.s) = <<>>
    \/ value = Undefined
    \/ value = Bool(TRUE) /\ ~StartsWith(target, TaskPrefix)

\* C6  Dropped targets never appear: a target whose retained latest record
\* has value false, an empty or whitespace-only string, no value, or true
\* without the task prefix has no record in processRecording(rawLog), and
\* every target of processRecording(rawLog) is in completedTasks or
\* formValues of deduceGoal(rawLog).
C6_DroppedTargetsAbsent ==
    Processed =>
        /\ \A target \in TargetsOf(rawLog) :
              IsDropped(target, TerminalOf(target).value)
                  => target \notin TargetsOf(refinedScript)
        /\ TargetsOf(refinedScript) \subseteq NecessaryTargets(goal)

\* a dropped target that an earlier record had set to true or to a
\* non-empty string
C6_Witness ==
    /\ Processed
    /\ \E i \in 1..Len(rawLog) :
          /\ IsDropped(rawLog[i].target, TerminalOf(rawLog[i].target).value)
          /\ rawLog[i].timestamp < TerminalOf(rawLog[i].target).timestamp
          /\ ~IsDropped(rawLog[i].target, rawLog[i].value)
          /\ rawLog[i].target \notin TargetsOf(refinedScript)

\* C7 as stated: a terminal string that is non-empty after trimming is
\* stored in formValues trimmed.
C7_TrimmedFormValues ==
    Processed =>
        \A target \in TargetsOf(rawLog) :
            LET value == TerminalOf(target).value
            IN  value.tag = "string" /\ Trim(value.s) # <<>>
                    => FormValueOf(goal, target) = Str(Trim(value.s))

\* C7  Form-values hold the terminal string as recorded: a terminal string
\* that is non-empty after trimming is stored in formValues unchanged,
\* surrounding whitespace included.
C7_RawFormValues ==
    Processed =>
        \A target \in TargetsOf(rawLog) :
            LET value == TerminalOf(target).value
            IN  value.tag = "string" /\ Trim(value.s) # <<>>
                    => FormValueOf(goal, target) = value

\* a form value with surrounding whitespace
C7_Witness ==
    /\ Processed
    /\ \E target \in TargetsOf(rawLog) :
          LET value == TerminalOf(target).value
          IN  /\ value.tag = "string"
              /\ Trim(value.s) # <<>>
              /\ Trim(value.s) # value.s
              /\ MapHas(goal.formValues, target)

\* C8  Subset property: every record of processRecording(rawLog) has the
\* target and timestamp of some record of rawLog.
C8_Subset ==
    Processed =>
        \A i \in 1..Len(refinedScript) :
            \E j \in 1..Len(rawLog) :
                /\ rawLog[j].target = refinedScript[i].target
                /\ rawLog[j].timestamp = refinedScript[i].timestamp

\* a script that keeps some records of the log and leaves others out
C8_Witness ==
    /\ Processed
    /\ refinedScript # <<>>
    /\ \E j \in 1..Len(rawLog) : rawLog[j] \notin Range(refinedScript)

\* C9  Purity and determinism: a second processRecording(rawLog) returns
\* the same records, and builds the same Keep-List, whatever Date.now()
\* the two calls stored in the Terminal State.
C9_Determinism ==
    pc = "again" =>
        /\ second.refinedScript = refinedScript
        /\ second.keepList = keepList

\* two calls with different wall-clock readings, one of them earlier than
\* a record that is kept
C9_Witness ==
    /\ pc = "again"
    /\ second.goal.timestamp # goal.timestamp
    /\ \E i \in 1..Len(refinedScript) :
          refinedScript[i].timestamp > goal.timestamp

\* C10  Empty input: processRecording of the empty log returns the empty
\* sequence and invokes none of deduceGoal, traceBackward, pruneNoise.
C10_EmptyInput ==
    /\ Processed /\ rawLog = <<>>
          => refinedScript = <<>> /\ invoked = <<>>
    /\ pc = "rerefined" /\ refinedScript = <<>>
          => second.refinedScript = <<>> /\ second.invoked = <<>>

\* the empty log has been processed
C10_Witness == pc = "done" /\ rawLog = <<>>

(* ------------------------- the stages, one by one ---------------------- *)

\* Terminal States handed to traceBackward directly: task-1 completed or
\* not, and no form value, name = "b", or task-1 = "b"
Goals ==
    {[completedTasks |-> c, formValues |-> f, timestamp |-> 0] :
        c \in {<<>>, <<Task1>>},
        f \in {<<>>,
               <<[key |-> Name, val |-> Str(<<"b">>)]>>,
               <<[key |-> Task1, val |-> Str(<<"b">>)]>>}}

\* the array deduceGoal was given, after the call: line 26 only iterates it
deduceGoalArgs(actions) == actions

\* lines 88-90 sorting the array it was given instead of a copy
traceBackwardArgs_SortInPlace(actions, goal_) ==
    [actions |-> SortByTimestamp(actions), goal |-> goal_]

\* the array and the goal traceBackward was given, after the call: lines
\* 64-65 and 70-85 only read them, line 88 sorts the array Array.from made
traceBackwardArgs(actions, goal_) == [actions |-> actions, goal |-> goal_]

\* the arrays pruneNoise was given, after the call: map and filter (lines
\* 107, 111) build new arrays, line 128 sorts the array Array.from made
pruneNoiseArgs(rawLog_, keepList_) ==
    [rawLog |-> rawLog_, keepList |-> keepList_]

\* the array processRecording was given, after the three stages had it
processRecordingArgs(rawLog_, now) ==
    IF Len(rawLog_) = 0 THEN rawLog_
    ELSE LET afterGoal == deduceGoalArgs(rawLog_)
             goal_ == deduceGoal(rawLog_, now)
             afterTrace == traceBackwardArgs(afterGoal, goal_)
         IN  pruneNoiseArgs(afterTrace.actions,
                            traceBackward(rawLog_, goal_)).rawLog

StageInit ==
    /\ rawLog \in Logs
    /\ goal \in Goals
    /\ pc = "ready"
    /\ keepList = <<>>
    /\ refinedScript = <<>>
    /\ invoked = <<>>
    /\ second = NoResult
    /\ ShellInit

\* deduceGoal(rawLog)
CallDeduceGoal ==
    /\ pc = "ready"
    /\ \E now \in Clock : goal' = deduceGoal(rawLog, now)
    /\ rawLog' = deduceGoalArgs(rawLog)
    /\ pc' = "deduced"
    /\ UNCHANGED <<keepList, refinedScript, invoked, second>>
    /\ UNCHANGED shellVars

\* traceBackward(rawLog, goal)
CallTraceBackward ==
    /\ pc = "ready"
    /\ keepList' = traceBackward(rawLog, goal)
    /\ \E after \in {traceBackwardArgs(rawLog, goal)} :
          /\ rawLog' = after.actions
          /\ goal' = after.goal
    /\ pc' = "traced"
    /\ UNCHANGED <<refinedScript, invoked, second>>
    /\ UNCHANGED shellVars

\* pruneNoise(rawLog, keepList)
CallPruneNoise ==
    /\ pc = "traced"
    /\ refinedScript' = pruneNoise(rawLog, keepList)
    /\ \E after \in {pruneNoiseArgs(rawLog, keepList)} :
          /\ rawLog' = after.rawLog
          /\ keepList' = after.keepList
    /\ pc' = "pruned"
    /\ UNCHANGED <<goal, invoked, second>>
    /\ UNCHANGED shellVars

\* processRecording(rawLog)
CallProcessRecording ==
    /\ pc = "ready"
    /\ \E now \in Clock :
         /\ \E r \in {processRecording(rawLog, now)} :
               /\ goal' = r.goal
               /\ keepList' = r.keepList
               /\ refinedScript' = r.refinedScript
               /\ invoked' = r.invoked
         /\ rawLog' = processRecordingArgs(rawLog, now)
    /\ pc' = "processed"
    /\ UNCHANGED second
    /\ UNCHANGED shellVars

StageNext ==
    \/ CallDeduceGoal
    \/ CallTraceBackward
    \/ CallPruneNoise
    \/ CallProcessRecording

StageSpec == StageInit /\ [][StageNext]_vars

(* ------------------------------ the shell ------------------------------ *)

\* what DemoWorkspace records in the model: unchecking the task, then
\* typing "b" into the field
ShellActions ==
    { Action(<<"toggle", Task1, Bool(FALSE)>>, 1),
      Action(<<"input", Name, Str(<<"b">>)>>, 2) }

\* the time AutopilotScheduler passes to onSchedule
Times == {"09:00"}

Pending == timers["suggest"] + timers["hide"] + timers["run800"]
              + timers["run100"] + timers["run2000"]

SetTimeout(t, kind) == [t EXCEPT ![kind] = @ + 1]

Fired(t, kind) == [t EXCEPT ![kind] = @ - 1]

\* lines 37-42
handleStartTeaching ==
    /\ isTeaching' = TRUE
    /\ showSuggestion' = FALSE
    /\ recordedActions' = <<>>
    /\ rawActionCount' = 0
    /\ UNCHANGED <<showScheduler, showFeedback, feedbackMessage, savedTask,
                   isAutomating, scheduledTime, teachingJustFinished, timers,
                   sessions, nothingWorthSaving>>
    /\ UNCHANGED pipelineVars

\* lines 44-48
handleRecordAction(action) ==
    /\ isTeaching
    /\ Len(recordedActions) < MaxLen
    /\ recordedActions' = Append(recordedActions, action)
    /\ UNCHANGED <<isTeaching, showSuggestion, showScheduler, showFeedback,
                   feedbackMessage, savedTask, isAutomating, rawActionCount,
                   scheduledTime, teachingJustFinished, timers, sessions,
                   nothingWorthSaving>>
    /\ UNCHANGED pipelineVars

\* lines 50-70; onFinish of TeachModeBar, rendered while isTeaching
handleFinishTeaching ==
    /\ isTeaching
    /\ isTeaching' = FALSE
    /\ teachingJustFinished' = TRUE
    /\ IF Len(recordedActions) > 0
       THEN \E now \in Clock :
              \E r \in {processRecording(recordedActions, now)} :
                 /\ rawActionCount' = Len(recordedActions)
                 /\ sessions' = sessions \cup {r.refinedScript}
                 /\ IF Len(r.refinedScript) > 0
                    THEN /\ Pending < MaxPending
                         /\ recordedActions' = r.refinedScript
                         /\ timers' = SetTimeout(timers, "suggest")
                         /\ nothingWorthSaving' = FALSE
                    ELSE /\ UNCHANGED <<recordedActions, timers>>
                         /\ nothingWorthSaving' = TRUE
       ELSE /\ UNCHANGED <<rawActionCount, recordedActions, timers, sessions>>
            /\ nothingWorthSaving' = TRUE
    /\ UNCHANGED <<showSuggestion, showScheduler, showFeedback,
                   feedbackMessage, savedTask, isAutomating, scheduledTime>>
    /\ UNCHANGED pipelineVars

\* lines 64-67: the callback handleFinishTeaching scheduled for 500 ms
SuggestionTimer ==
    /\ timers["suggest"] > 0
    /\ timers' = Fired(timers, "suggest")
    /\ showSuggestion' = TRUE
    /\ teachingJustFinished' = FALSE
    /\ UNCHANGED <<isTeaching, showScheduler, showFeedback, feedbackMessage,
                   recordedActions, savedTask, isAutomating, rawActionCount,
                   scheduledTime, sessions, nothingWorthSaving>>
    /\ UNCHANGED pipelineVars

\* lines 72-75; onCancel of TeachModeBar
handleCancelTeaching ==
    /\ isTeaching
    /\ isTeaching' = FALSE
    /\ recordedActions' = <<>>
    /\ UNCHANGED <<showSuggestion, showScheduler, showFeedback,
                   feedbackMessage, savedTask, isAutomating, rawActionCount,
                   scheduledTime, teachingJustFinished, timers, sessions,
                   nothingWorthSaving>>
    /\ UNCHANGED pipelineVars

\* lines 77-85; onYes of SuggestionBubble, rendered while showSuggestion
handleYesSuggestion ==
    /\ showSuggestion
    /\ Pending < MaxPending
    /\ showSuggestion' = FALSE
    /\ savedTask' = <<recordedActions>>
    /\ feedbackMessage' = <<"Task saved. I'll handle it next time.">>
    /\ showFeedback' = TRUE
    /\ timers' = SetTimeout(timers, "hide")
    /\ UNCHANGED <<isTeaching, showScheduler, recordedActions, isAutomating,
                   rawActionCount, scheduledTime, teachingJustFinished,
                   sessions, nothingWorthSaving>>
    /\ UNCHANGED pipelineVars

\* lines 82-84 and 105-107: the callbacks scheduled for 2500 ms
HideFeedbackTimer ==
    /\ timers["hide"] > 0
    /\ timers' = Fired(timers, "hide")
    /\ showFeedback' = FALSE
    /\ UNCHANGED <<isTeaching, showSuggestion, showScheduler, feedbackMessage,
                   recordedActions, savedTask, isAutomating, rawActionCount,
                   scheduledTime, teachingJustFinished, sessions,
                   nothingWorthSaving>>
    /\ UNCHANGED pipelineVars

\* lines 87-90; onNotNow of SuggestionBubble
handleNotNow ==
    /\ showSuggestion
    /\ showSuggestion' = FALSE
    /\ recordedActions' = <<>>
    /\ UNCHANGED <<isTeaching, showScheduler, showFeedback, feedbackMessage,
                   savedTask, isAutomating, rawActionCount, scheduledTime,
                   teachingJustFinished, timers, sessions, nothingWorthSaving>>
    /\ UNCHANGED pipelineVars

\* lines 92-95; onSchedule of SuggestionBubble
handleSchedule ==
    /\ showSuggestion
    /\ showSuggestion' = FALSE
    /\ showScheduler' = TRUE
    /\ UNCHANGED <<isTeaching, showFeedback, feedbackMessage, recordedActions,
                   savedTask, isAutomating, rawActionCount, scheduledTime,
                   teachingJustFinished, timers, sessions, nothingWorthSaving>>
    /\ UNCHANGED pipelineVars

\* lines 97-108; onSchedule of AutopilotScheduler, rendered while
\* showScheduler
handleScheduleAutomation(time) ==
    /\ showScheduler
    /\ Pending < MaxPending
    /\ showScheduler' = FALSE
    /\ savedTask' = <<recordedActions>>
    /\ scheduledTime' = <<time>>
    /\ feedbackMessage' = <<"Autopilot scheduled for ", time, " daily.">>
    /\ showFeedback' = TRUE
    /\ timers' = SetTimeout(timers, "hide")
    /\ UNCHANGED <<isTeaching, showSuggestion, recordedActions, isAutomating,
                   rawActionCount, teachingJustFinished, sessions,
                   nothingWorthSaving>>
    /\ UNCHANGED pipelineVars

\* lines 110-113; onCancel of AutopilotScheduler
handleCancelScheduler ==
    /\ showScheduler
    /\ showScheduler' = FALSE
    /\ showSuggestion' = TRUE
    /\ UNCHANGED <<isTeaching, showFeedback, feedbackMessage, recordedActions,
                   savedTask, isAutomating, rawActionCount, scheduledTime,
                   teachingJustFinished, timers, sessions, nothingWorthSaving>>
    /\ UNCHANGED pipelineVars

\* lines 115-123: up to the first setTimeout
handleRunAutomation ==
    /\ savedTask # <<>>
    /\ Len(savedTask[1]) # 0
    /\ Pending < MaxPending
    /\ isAutomating' = TRUE
    /\ feedbackMessage' = <<"Protege is automating...">>
    /\ showFeedback' = TRUE
    /\ timers' = SetTimeout(timers, "run800")
    /\ UNCHANGED <<isTeaching, showSuggestion, showScheduler, recordedActions,
                   savedTask, rawActionCount, scheduledTime,
                   teachingJustFinished, sessions, nothingWorthSaving>>
    /\ UNCHANGED pipelineVars

\* lines 123-134: the three nested callbacks, 800, 100 and 2000 ms
RunAutomationTimer ==
    /\ \/ /\ timers["run800"] > 0
          /\ timers' = SetTimeout(Fired(timers, "run800"), "run100")
          /\ showFeedback' = FALSE
          /\ UNCHANGED <<feedbackMessage, isAutomating>>
       \/ /\ timers["run100"] > 0
          /\ timers' = SetTimeout(Fired(timers, "run100"), "run2000")
          /\ feedbackMessage' = <<"Task completed">>
          /\ showFeedback' = TRUE
          /\ UNCHANGED isAutomating
       \/ /\ timers["run2000"] > 0
          /\ timers' = Fired(timers, "run2000")
          /\ showFeedback' = FALSE
          /\ isAutomating' = FALSE
          /\ UNCHANGED feedbackMessage
    /\ UNCHANGED <<isTeaching, showSuggestion, showScheduler, recordedActions,
                   savedTask, rawActionCount, scheduledTime,
                   teachingJustFinished, sessions, nothingWorthSaving>>
    /\ UNCHANGED pipelineVars

\* App as first rendered; the pipeline's own variables are not used
ShellStart ==
    /\ rawLog = <<>>
    /\ pc = "shell"
    /\ goal = NoGoal
    /\ keepList = <<>>
    /\ refinedScript = <<>>
    /\ invoked = <<>>
    /\ second = NoResult
    /\ ShellInit

ShellNext ==
    \/ handleStartTeaching
    \/ \E action \in ShellActions : handleRecordAction(action)
    \/ handleFinishTeaching
    \/ SuggestionTimer
    \/ handleCancelTeaching
    \/ handleYesSuggestion
    \/ HideFeedbackTimer
    \/ handleNotNow
    \/ handleSchedule
    \/ \E time \in Times : handleScheduleAutomation(time)
    \/ handleCancelScheduler
    \/ handleRunAutomation
    \/ RunAutomationTimer

ShellSpec == ShellStart /\ [][ShellNext]_vars

(* -------------------------- claims on the shell ------------------------ *)

\* C11  Empty result means nothing worth saving: once handleFinishTeaching
\* has run on an empty log or got an empty script, and until a later
\* session yields a non-empty script, no handler call or timer firing
\* shows the suggestion bubble or stores recordedActions as savedTask.
C11_NothingWorthSaving ==
    [][nothingWorthSaving /\ nothingWorthSaving'
          => /\ showSuggestion' => showSuggestion
             /\ savedTask' = savedTask]_vars

\* C15  Saved task is always a refined script: savedTask is null or a
\* non-empty script that processRecording returned to handleFinishTeaching.
C15_SavedTaskIsRefinedScript ==
    \/ savedTask = <<>>
    \/ /\ savedTask[1] # <<>>
       /\ savedTask[1] \in sessions

(* ------------------------- claims on the stages ------------------------ *)

\* a record matches a Terminal State: a toggle of a completed task, or an
\* input whose value is the string the Terminal State has for its target
MatchesGoal(action, goal_) ==
    \/ action.type = "toggle" /\ Includes(goal_.completedTasks, action.target)
    \/ /\ action.type = "input"
       /\ MapHas(goal_.formValues, action.target)
       /\ action.value = MapGet(goal_.formValues, action.target)

\* C12  Backward-match policy: traceBackward(rawLog, goal) has a record
\* for a necessary target exactly when rawLog has a matching record for it,
\* it has one only, and that one is a matching record of rawLog whose
\* timestamp no matching record of the target exceeds; records that fail
\* the match, later ones included, neither replace nor remove it.
C12_BackwardMatchPolicy ==
    pc = "traced" =>
        \A target \in NecessaryTargets(goal) :
            LET matching == {i \in 1..Len(rawLog) :
                                /\ rawLog[i].target = target
                                /\ MatchesGoal(rawLog[i], goal)}
                kept == {k \in 1..Len(keepList) :
                            keepList[k].target = target}
            IN  /\ (kept # {}) <=> (matching # {})
                /\ Cardinality(kept) <= 1
                /\ \A k \in kept :
                      /\ \E i \in matching : rawLog[i] = keepList[k]
                      /\ \A i \in matching :
                            rawLog[i].timestamp <= keepList[k].timestamp

\* C13  Noise Pruning is a pure re-selection: for the goal deduced from
\* rawLog, pruneNoise(rawLog, traceBackward(rawLog, goal)) is exactly the
\* Keep-List, record for record, and every record of the Refined Script
\* matches the goal, also when records of rawLog share timestamp and target.
C13_PureReselection ==
    Processed =>
        /\ refinedScript = keepList
        /\ \A i \in 1..Len(refinedScript) : MatchesGoal(refinedScript[i], goal)

====
